---- MODULE Spec2Model ----
(***************************************************************************)
(* Rate-limited token issuance (rate_limited_issuance.go): the client's    *)
(* CreateTokenRequest / FinalizeToken, the issuer's AddOrigin / Evaluate / *)
(* EvaluateWithoutCheck, the attester's FinalizeIndex, and the origin-name *)
(* padding.                                                                *)
(*                                                                         *)
(* Byte strings.  A []byte is a sequence of runs <<kind, term, lo, hi>>:   *)
(*   <<"b", v, 1, n>>      n plain bytes of value v;                       *)
(*   <<kind, term, lo, hi>> bytes lo..hi of the opaque value `term` that   *)
(*                         the primitive `kind` produced (a ciphertext, a  *)
(*                         digest, a signature, random bytes, ...).        *)
(* Adjacent runs that continue each other are merged, so two byte strings  *)
(* are equal exactly when their run sequences are equal, and lengths and   *)
(* offsets are the real ones (32, 49, 256, ...).  The primitives of the    *)
(* libraries (HPKE, AES-GCM, HKDF, blind RSA, ECDSA) are symbolic: an      *)
(* output names the inputs that produced it, and opening or verifying      *)
(* succeeds only on an output of the matching sealing or signing call.     *)
(***************************************************************************)
EXTENDS Integers, Sequences, FiniteSets, TLC

VARIABLES
    originIndexKeys,  \* issuer: originIndexKeys, origin name -> index key
    adds,             \* how many times AddOrigin was called
    requests,         \* heap: the RateLimitedTokenRequest objects, by address
    sent,             \* history: each request as CreateTokenRequest emitted it
    states,           \* the calls of CreateTokenRequest and the states they returned
    responses,        \* the calls of Evaluate / EvaluateWithoutCheck and their results
    finals,           \* the calls of FinalizeToken and their results
    tampers,          \* how many times the network has interfered so far
    limits,           \* how many calls of each kind a run makes at most
    padIn,      \* padding harness: the origin name under test
    padOut,     \* padding harness: padOriginName(padIn), once computed
    unpadOut,   \* padding harness: unpadOriginName(padOut), once computed
    padPc,      \* padding harness: "idle" | "start" | "padded" | "unpadded" | "unpaddedRaw"
    codecIn,    \* decoding harness: the bytes handed to OriginTokenRequest.Unmarshal
    codecOut,   \* decoding harness: what Unmarshal returned, once it has
    codecPc,    \* decoding harness: "idle" | "start" | "done"
    workers     \* worker threads of the issuer: the call each is in and where

padVars == <<padIn, padOut, unpadOut, padPc>>
protoVars == <<originIndexKeys, adds, requests, sent, states, responses,
               finals, tampers, limits>>
codecVars == <<codecIn, codecOut, codecPc>>
auxVars == <<codecVars, workers>>
vars == <<protoVars, limits, padVars, auxVars>>

Max(a, b) == IF a > b THEN a ELSE b
Min(a, b) == IF a < b THEN a ELSE b

----------------------------------------------------------------------------
(* Byte strings as run sequences *)

Bytes(v, n) == IF n <= 0 THEN <<>> ELSE << <<"b", v, 1, n>> >>
Opaque(kind, term, n) == << <<kind, term, 1, n>> >>

RunLen(c) == c[4] - c[3] + 1

RECURSIVE BLen(_)
BLen(s) == IF s = <<>> THEN 0 ELSE RunLen(Head(s)) + BLen(Tail(s))

Continues(a, b) ==
    /\ a[1] = b[1]
    /\ a[2] = b[2]
    /\ (a[1] = "b" \/ b[3] = a[4] + 1)

Joined(a, b) ==
    IF a[1] = "b" THEN <<"b", a[2], 1, a[4] + b[4]>>
                  ELSE <<a[1], a[2], a[3], b[4]>>

RECURSIVE Norm(_)
Norm(s) ==
    IF Len(s) < 2 THEN s
    ELSE IF Continues(s[1], s[2])
         THEN Norm(<<Joined(s[1], s[2])>> \o Tail(Tail(s)))
         ELSE <<s[1]>> \o Norm(Tail(s))

\* append(a, b...) as a value: the bytes of a followed by the bytes of b
Cat(a, b) == Norm(a \o b)

RunStart(s, k) == BLen(SubSeq(s, 1, k - 1))

RunPart(c, a, b) ==
    IF c[1] = "b" THEN <<"b", c[2], 1, b - a>>
                  ELSE <<c[1], c[2], c[3] + a, c[3] + b - 1>>

RECURSIVE Flatten(_)
Flatten(ss) == IF ss = <<>> THEN <<>> ELSE Head(ss) \o Flatten(Tail(ss))

\* s[from:to] of Go, for 0 <= from <= to <= len(s)
Slice(s, from, to) ==
    Flatten([k \in 1..Len(s) |->
        LET o == RunStart(s, k)
            a == Max(from, o)
            b == Min(to, o + RunLen(s[k]))
        IN  IF a < b THEN <<RunPart(s[k], a - o, b - o)>> ELSE <<>>])

\* s[i] of Go, as a one-byte run
ByteAt(s, i) == Slice(s, i, i + 1)[1]

ZeroByte == <<"b", 0, 1, 1>>

----------------------------------------------------------------------------
(* Origin-name padding *)

PadBlock == 32

\* the remainder that takes the sign of the divisor
GoRem_floor(a, b) == a % b

\* Go's % truncates toward zero: (-1) % 32 = -1
GoRem(a, b) == IF a >= 0 THEN a % b ELSE -((-a) % b)

\* pads to the next multiple of PadBlock above the length
padOriginName_nextBlock(originName) ==
    Cat(originName, Bytes(0, PadBlock - (BLen(originName) % PadBlock)))

padOriginName(originName) ==
    LET N == (PadBlock - 1) - GoRem(BLen(originName) - 1, PadBlock)
    IN  Cat(originName, Bytes(0, N))

RECURSIVE ScanLastNonZero(_, _)
ScanLastNonZero(paddedOriginName, lastNonZero) ==
    IF lastNonZero < 0 THEN -1
    ELSE IF ByteAt(paddedOriginName, lastNonZero) # ZeroByte THEN lastNonZero
    ELSE ScanLastNonZero(paddedOriginName, lastNonZero - 1)

\* strips nothing
unpadOriginName_keepAll(paddedOriginName) == paddedOriginName

\* strips the last non-zero byte as well
unpadOriginName_dropLast(paddedOriginName) ==
    LET lastNonZero == ScanLastNonZero(paddedOriginName, BLen(paddedOriginName) - 1)
    IN  IF lastNonZero < 0 THEN <<>>
        ELSE Slice(paddedOriginName, 0, lastNonZero)

unpadOriginName(paddedOriginName) ==
    LET lastNonZero == ScanLastNonZero(paddedOriginName, BLen(paddedOriginName) - 1)
    IN  IF lastNonZero < 0 THEN <<>>
        ELSE Slice(paddedOriginName, 0, lastNonZero + 1)

----------------------------------------------------------------------------
(* Wire helpers (cryptobyte) *)

U8(n) == Bytes(n, 1)
U16(n) == Cat(Bytes(n \div 256, 1), Bytes(n % 256, 1))
MaxUint16 == 65535

\* the big-endian number in s[off], s[off+1]; -1 when the bytes are not plain
ReadU16(s, off) ==
    LET hi == ByteAt(s, off)
        lo == ByteAt(s, off + 1)
    IN  IF hi[1] = "b" /\ lo[1] = "b" THEN hi[2] * 256 + lo[2] ELSE -1

----------------------------------------------------------------------------
(* Library primitives, symbolic *)

\* the issuer's suite: DHKEM(X25519), HKDF-SHA256, AES-128-GCM
KemPublicKeySize == 32
AeadKeySize == 16
AeadNonceSize == 12
AeadTagSize == 16
BlindedMsgLen == 256
RequestKeyLen == 49
ScalarLen == 48
Sha256Size == 32
Sha384Size == 48
RateLimitedTokenType == 3

Sha256(data) == Opaque("sha256", data, Sha256Size)

\* HPKE base mode.  A context is <<ephemeral, recipient key, info>>; the
\* encapsulation names the ephemeral key alone.
NoEphemeral == 0
KemEncap(e) == Opaque("kem", e, KemPublicKeySize)
KemDecap(enc) ==
    IF /\ Len(enc) = 1
       /\ enc[1][1] = "kem"
       /\ enc[1][3] = 1
       /\ enc[1][4] = KemPublicKeySize
    THEN enc[1][2]
    ELSE NoEphemeral
SetupBaseS(pkR, info, e) == [enc |-> KemEncap(e), context |-> <<e, pkR, info>>]
SetupBaseR(skR, enc, info) == <<KemDecap(enc), skR, info>>

HpkeSeal(context, aad, pt) ==
    Opaque("hpke", <<context, aad, pt>>, BLen(pt) + AeadTagSize)
HpkeOpens(context, aad, ct) ==
    /\ context[1] # NoEphemeral
    /\ Len(ct) = 1
    /\ ct[1][1] = "hpke"
    /\ ct[1][2][1] = context
    /\ ct[1][2][2] = aad
    /\ ct = HpkeSeal(context, aad, ct[1][2][3])
HpkePlaintext(ct) == ct[1][2][3]
HpkeExport(context, label, n) == Opaque("export", <<context, label>>, n)

\* HKDF: Extract(salt, ikm) then Expand(prk, info, n)
KdfExtract(salt, secret) == <<salt, secret>>
KdfExpand(prk, label, n) == Opaque("hkdf", <<prk, label>>, n)

\* AES-GCM with empty additional data
AeadSeal(key, nonce, pt) ==
    Opaque("aead", <<key, nonce, pt>>, BLen(pt) + AeadTagSize)
\* opens a whole ciphertext under any key and nonce
AeadOpens_anyKey(key, nonce, ct) ==
    /\ Len(ct) = 1
    /\ ct[1][1] = "aead"
    /\ ct = AeadSeal(ct[1][2][1], ct[1][2][2], ct[1][2][3])

AeadOpens(key, nonce, ct) ==
    /\ Len(ct) = 1
    /\ ct[1][1] = "aead"
    /\ ct[1][2][1] = key
    /\ ct[1][2][2] = nonce
    /\ ct = AeadSeal(key, nonce, ct[1][2][3])
AeadPlaintext(ct) == ct[1][2][3]

\* Blind RSA (RSA-2048, PSS, SHA-384).  A key pair is named by one id.
RsaBlind(pk, r, msg) == Opaque("blinded", <<pk, r, msg>>, BlindedMsgLen)
RsaBlindSignOk(blindedMsg) == BLen(blindedMsg) = BlindedMsgLen
RsaBlindSign(sk, blindedMsg) == Opaque("blindsig", <<sk, blindedMsg>>, BlindedMsgLen)
RsaSignature(sk, msg) == Opaque("rsapss", <<sk, msg>>, BlindedMsgLen)
\* verifier state <<pk, r, msg>>
RsaFinalizeOk(verifier, blindSig) ==
    blindSig = RsaBlindSign(verifier[1], RsaBlind(verifier[1], verifier[2], verifier[3]))
RsaFinalize(verifier, blindSig) == RsaSignature(verifier[1], verifier[3])
\* rsa.VerifyPSS over SHA-384(msg)
RsaVerifyPSS(pk, msg, sig) == sig = RsaSignature(pk, msg)

\* P-384, reduced to a group of prime order: a point is its discrete
\* logarithm (0: the point at infinity), a private key a scalar in
\* 1..CurveOrder-1; NilPoint stands for the (nil, nil) of a failed decoding.
CurveOrder == 7
Scalars == 1..(CurveOrder - 1)
NilPoint == -1
ScalarInverse(k) == CHOOSE j \in Scalars : (j * k) % CurveOrder = 1
PublicOf(sk) == sk % CurveOrder
MarshalCompressed(P) == Opaque("p384", P, RequestKeyLen)
UnmarshalCompressed(data) ==
    IF /\ Len(data) = 1
       /\ data[1][1] = "p384"
       /\ data[1][3] = 1
       /\ data[1][4] = RequestKeyLen
       /\ data[1][2] \in Scalars
    THEN data[1][2]
    ELSE NilPoint

\* package ecdsa of this repository (key blinding)
CreateKeyOk(enc) == enc \in Scalars
BlindPublicKey(P, k) == (P * k) % CurveOrder
UnblindPublicKey(Q, k) == (Q * ScalarInverse(k)) % CurveOrder
\* r || s, each ScalarLen bytes, valid under the key sk * blind
BlindKeySign(sk, blind, digest) ==
    Opaque("ecdsa", <<BlindPublicKey(PublicOf(sk), blind), digest>>, 2 * ScalarLen)
EcdsaVerify(P, digest, r, s) ==
    /\ P \in Scalars
    /\ r = Slice(Opaque("ecdsa", <<P, digest>>, 2 * ScalarLen), 0, ScalarLen)
    /\ s = Slice(Opaque("ecdsa", <<P, digest>>, 2 * ScalarLen), ScalarLen, 2 * ScalarLen)

----------------------------------------------------------------------------
(* Keys and messages *)

CatAll(parts) == Norm(Flatten(parts))

\* NewRateLimitedIssuer: the name key (id 0, DHKEM_X25519 = 0x0020,
\* KDF_HKDF_SHA256 = 1, AEAD_AESGCM128 = 1) and the RSA token key
IssuerNameKey ==
    [id |-> 0, kem |-> 32, kdf |-> 1, aead |-> 1,
     publicKey |-> "nameKey", privateKey |-> "nameKey"]
IssuerTokenKey == "tokenKey"

\* PublicNameKey.Marshal
NameKeyMarshal(nameKey) ==
    CatAll(<<U8(nameKey.id), U16(nameKey.kem), U16(nameKey.kdf), U16(nameKey.aead),
             Opaque("kempk", nameKey.publicKey, KemPublicKeySize)>>)

\* RateLimitedIssuer.TokenKeyID
TokenKeyID == Sha256(Opaque("pssoid", IssuerTokenKey, BlindedMsgLen))

\* Token.AuthenticatorInput and UnmarshalToken
AuthenticatorInput(token) ==
    CatAll(<<U16(token.TokenType), token.Nonce, token.Context, token.KeyID>>)
TokenInputLen == 2 + 3 * Sha256Size
UnmarshalToken(data) ==
    [TokenType |-> ReadU16(data, 0),
     Nonce |-> Slice(data, 2, 2 + Sha256Size),
     Context |-> Slice(data, 2 + Sha256Size, 2 + 2 * Sha256Size),
     KeyID |-> Slice(data, 2 + 2 * Sha256Size, TokenInputLen),
     Authenticator |-> Slice(data, TokenInputLen, BLen(data))]
NoToken == [TokenType |-> 0, Nonce |-> <<>>, Context |-> <<>>, KeyID |-> <<>>,
            Authenticator |-> <<>>]

\* OriginTokenRequest{} and its codec
EmptyOriginTokenRequest == [blindedMsg |-> <<>>, requestKey |-> <<>>, paddedOrigin |-> <<>>]

\* Marshal: BytesOrPanic panics when paddedOrigin does not fit the 16-bit prefix
MarshalPanics(r) == BLen(r.paddedOrigin) > MaxUint16
Marshal(r) ==
    CatAll(<<r.blindedMsg, r.requestKey, U16(BLen(r.paddedOrigin)), r.paddedOrigin>>)

\* Unmarshal: 256 bytes, 49 bytes, a 16-bit length and that many bytes; what
\* follows them is not looked at
UnmarshalOk(data) ==
    /\ BLen(data) >= BlindedMsgLen + RequestKeyLen + 2
    /\ ReadU16(data, BlindedMsgLen + RequestKeyLen) >= 0
    /\ BLen(data) >= BlindedMsgLen + RequestKeyLen + 2
                        + ReadU16(data, BlindedMsgLen + RequestKeyLen)
Unmarshal(data) ==
    [blindedMsg |-> Slice(data, 0, BlindedMsgLen),
     requestKey |-> Slice(data, BlindedMsgLen, BlindedMsgLen + RequestKeyLen),
     paddedOrigin |-> Slice(data, BlindedMsgLen + RequestKeyLen + 2,
                            BlindedMsgLen + RequestKeyLen + 2
                                + ReadU16(data, BlindedMsgLen + RequestKeyLen))]

\* the additional data of the HPKE seal, on both sides
HpkeAad(nameKey, tokenKeyID, issuerKeyID) ==
    CatAll(<<U8(nameKey.id), U16(nameKey.kem), U16(nameKey.kdf), U16(nameKey.aead),
             U16(RateLimitedTokenType), tokenKeyID, issuerKeyID>>)

\* the message the client signs and Evaluate verifies
SignedMessage(tokenKeyID, nameKeyID, encryptedTokenRequest) ==
    CatAll(<<U16(RateLimitedTokenType), tokenKeyID, nameKeyID, encryptedTokenRequest>>)

computeIndex(clientKey, indexKey) == Opaque("hkdf384", <<indexKey, clientKey>>, Sha384Size)

\* derives the index from the blinded key itself
FinalizeIndex_noUnblind(clientKey, blindEnc, blindedRequestKeyEnc) ==
    LET blindedRequestKey == UnmarshalCompressed(blindedRequestKeyEnc)
    IN  IF ~CreateKeyOk(blindEnc) THEN [err |-> "InvalidKey", index |-> <<>>]
        ELSE IF blindedRequestKey = NilPoint THEN [err |-> "panic", index |-> <<>>]
        ELSE [err |-> "ok",
              index |-> computeIndex(clientKey, MarshalCompressed(blindedRequestKey))]

\* FinalizeIndex(clientKey, blindEnc, blindedRequestKeyEnc): [err, index]
FinalizeIndex(clientKey, blindEnc, blindedRequestKeyEnc) ==
    LET blindedRequestKey == UnmarshalCompressed(blindedRequestKeyEnc)
    IN  IF ~CreateKeyOk(blindEnc) THEN [err |-> "InvalidKey", index |-> <<>>]
        ELSE IF blindedRequestKey = NilPoint THEN [err |-> "panic", index |-> <<>>]
        ELSE [err |-> "ok",
              index |-> computeIndex(clientKey,
                  MarshalCompressed(UnblindPublicKey(blindedRequestKey, blindEnc)))]

\* encryptOriginTokenRequest, with e the KEM's randomness:
\* [panic, nameKeyID, encryptedTokenRequest, secret]
encryptOriginTokenRequest(nameKey, tokenKeyID, blindedMessage, requestKey, originName, e) ==
    LET issuerKeyID == Sha256(NameKeyMarshal(nameKey))
        setup == SetupBaseS(nameKey.publicKey, "TokenRequest", e)
        tokenRequest == [blindedMsg |-> blindedMessage, requestKey |-> requestKey,
                         paddedOrigin |-> padOriginName(originName)]
        aad == HpkeAad(nameKey, tokenKeyID, issuerKeyID)
        ct == HpkeSeal(setup.context, aad, Marshal(tokenRequest))
    IN  [panic |-> MarshalPanics(tokenRequest),
         nameKeyID |-> issuerKeyID,
         encryptedTokenRequest |-> Cat(setup.enc, ct),
         secret |-> HpkeExport(setup.context, "OriginTokenResponse", AeadKeySize)]

\* decryptOriginTokenRequest: [err, req, secret].  A plaintext that does not
\* decode returns the empty request with the nil error of the Open before it.
decryptOriginTokenRequest(nameKey, tokenKeyID, encryptedTokenRequest) ==
    LET issuerConfigID == Sha256(NameKeyMarshal(nameKey))
        aad == HpkeAad(nameKey, tokenKeyID, issuerConfigID)
        enc == Slice(encryptedTokenRequest, 0, KemPublicKeySize)
        ct == Slice(encryptedTokenRequest, KemPublicKeySize, BLen(encryptedTokenRequest))
        context == SetupBaseR(nameKey.privateKey, enc, "TokenRequest")
        failed(e) == [err |-> e, req |-> EmptyOriginTokenRequest, secret |-> <<>>]
    IN  IF BLen(encryptedTokenRequest) < KemPublicKeySize THEN failed("panic")
        ELSE IF ~HpkeOpens(context, aad, ct) THEN failed("HpkeOpen")
        ELSE IF ~UnmarshalOk(HpkePlaintext(ct)) THEN failed("ok")
        ELSE [err |-> "ok",
              req |-> Unmarshal(HpkePlaintext(ct)),
              secret |-> HpkeExport(context, "OriginTokenResponse", AeadKeySize)]

----------------------------------------------------------------------------
(* Issuer: Evaluate and EvaluateWithoutCheck *)

\* response_nonce = random(max(Nn, Nk))
ResponseNonceLen == Max(AeadKeySize, AeadNonceSize)
ResponseNonce(rnd) == Opaque("rand", rnd, ResponseNonceLen)

\* salt, prk, key, nonce and the sealed blind signature
ResponseKey(enc, responseNonce, secret) ==
    KdfExpand(KdfExtract(Cat(enc, responseNonce), secret), "key", AeadKeySize)
ResponseAeadNonce(enc, responseNonce, secret) ==
    KdfExpand(KdfExtract(Cat(enc, responseNonce), secret), "nonce", AeadNonceSize)
SealedResponse(enc, responseNonce, secret, blindSignature) ==
    AeadSeal(ResponseKey(enc, responseNonce, secret),
             ResponseAeadNonce(enc, responseNonce, secret), blindSignature)

EvalFailed(e) == [err |-> e, resp |-> <<>>, blindedRequestKeyEnc |-> <<>>, wrote |-> <<>>]

\* the part both variants share, from the blinded key on.  wrote: the bytes
\* that append(enc, responseNonce...) stores behind enc, in the request's own
\* encryptedTokenRequest array
IssueResponse(req, d, requestKey, originIndexKey, rnd, withNonce) ==
    LET blindedRequestKey == BlindPublicKey(requestKey, originIndexKey)
        responseNonce == ResponseNonce(rnd)
        enc == Slice(req.encryptedTokenRequest, 0, KemPublicKeySize)
        sealed == SealedResponse(enc, responseNonce, d.secret,
                                 RsaBlindSign(IssuerTokenKey, d.req.blindedMsg))
    IN  IF requestKey = NilPoint THEN EvalFailed("NilKey")
        ELSE IF ~RsaBlindSignOk(d.req.blindedMsg) THEN EvalFailed("BlindRsa")
        ELSE [err |-> "ok",
              resp |-> IF withNonce THEN Cat(responseNonce, sealed) ELSE sealed,
              blindedRequestKeyEnc |-> MarshalCompressed(blindedRequestKey),
              wrote |-> responseNonce]

\* goes on whatever the signature check says
Evaluate_uncheckedSignature(originKeys, req, rnd) ==
    LET d == decryptOriginTokenRequest(IssuerNameKey, req.tokenKeyID, req.encryptedTokenRequest)
        originName == unpadOriginName(d.req.paddedOrigin)
        requestKey == UnmarshalCompressed(d.req.requestKey)
    IN  IF d.err # "ok" THEN EvalFailed(d.err)
        ELSE IF originName \notin DOMAIN originKeys THEN EvalFailed("UnknownOrigin")
        ELSE IF BLen(req.signature) < ScalarLen THEN EvalFailed("panic")
        ELSE IF requestKey = NilPoint THEN EvalFailed("NilKey")
        ELSE IssueResponse(req, d, requestKey, originKeys[originName], rnd, TRUE)

\* Evaluate(req) with the issuer's origin keys and rnd the response nonce's
\* randomness: [err, resp, blindedRequestKeyEnc, wrote].  The result of
\* elliptic.UnmarshalCompressed is not looked at: a requestKey that is no
\* point reaches ecdsa.Verify as a key without coordinates (err "NilKey";
\* what the call then does is settled where Evaluate is called)
Evaluate(originKeys, req, rnd) ==
    LET d == decryptOriginTokenRequest(IssuerNameKey, req.tokenKeyID, req.encryptedTokenRequest)
        originName == unpadOriginName(d.req.paddedOrigin)
        requestKey == UnmarshalCompressed(d.req.requestKey)
        r == Slice(req.signature, 0, ScalarLen)
        s == Slice(req.signature, ScalarLen, BLen(req.signature))
        message == SignedMessage(req.tokenKeyID, req.nameKeyID, req.encryptedTokenRequest)
    IN  IF d.err # "ok" THEN EvalFailed(d.err)
        ELSE IF originName \notin DOMAIN originKeys THEN EvalFailed("UnknownOrigin")
        ELSE IF BLen(req.signature) < ScalarLen THEN EvalFailed("panic")
        ELSE IF requestKey = NilPoint THEN EvalFailed("NilKey")
        ELSE IF ~EcdsaVerify(requestKey, message, r, s) THEN EvalFailed("InvalidSignature")
        ELSE IssueResponse(req, d, requestKey, originKeys[originName], rnd, TRUE)

\* a lookup that takes the key 1 for a name the map does not hold
EvaluateWithoutCheck_anyOrigin(originKeys, req, rnd) ==
    LET d == decryptOriginTokenRequest(IssuerNameKey, req.tokenKeyID, req.encryptedTokenRequest)
        originName == unpadOriginName(d.req.paddedOrigin)
        requestKey == UnmarshalCompressed(d.req.requestKey)
    IN  IF d.err # "ok" THEN EvalFailed(d.err)
        ELSE IssueResponse(req, d, requestKey,
                 IF originName \in DOMAIN originKeys THEN originKeys[originName] ELSE 1,
                 rnd, FALSE)

\* EvaluateWithoutCheck(req): no signature check, and the response is the
\* sealed blind signature alone
EvaluateWithoutCheck(originKeys, req, rnd) ==
    LET d == decryptOriginTokenRequest(IssuerNameKey, req.tokenKeyID, req.encryptedTokenRequest)
        originName == unpadOriginName(d.req.paddedOrigin)
        requestKey == UnmarshalCompressed(d.req.requestKey)
    IN  IF d.err # "ok" THEN EvalFailed(d.err)
        ELSE IF originName \notin DOMAIN originKeys THEN EvalFailed("UnknownOrigin")
        ELSE IssueResponse(req, d, requestKey, originKeys[originName], rnd, FALSE)

----------------------------------------------------------------------------
(* Client: CreateTokenRequest and FinalizeToken *)

\* CreateTokenRequest, with fresh the randomness of the HPKE encapsulation
\* and of the RSA blinding: [err, request, state]
CreateTokenRequest(secretKey, challenge, nonce, blindKeyEnc, tokenKeyID, tokenKey, originName, nameKey, fresh) ==
    LET blindedPublicKeyEnc ==
            MarshalCompressed(BlindPublicKey(PublicOf(secretKey), blindKeyEnc))
        token == [TokenType |-> RateLimitedTokenType, Nonce |-> nonce,
                  Context |-> Sha256(challenge), KeyID |-> tokenKeyID,
                  Authenticator |-> <<>>]
        tokenInput == AuthenticatorInput(token)
        blindedMessage == RsaBlind(tokenKey, fresh, tokenInput)
        sealed == encryptOriginTokenRequest(nameKey, Slice(tokenKeyID, 0, 1),
                      blindedMessage, blindedPublicKeyEnc, originName, fresh)
        message == SignedMessage(Slice(tokenKeyID, 0, 1), sealed.nameKeyID,
                                 sealed.encryptedTokenRequest)
        request == [tokenKeyID |-> Slice(tokenKeyID, 0, 1),
                    nameKeyID |-> sealed.nameKeyID,
                    encryptedTokenRequest |-> sealed.encryptedTokenRequest,
                    signature |-> BlindKeySign(secretKey, blindKeyEnc, message)]
    IN  IF ~CreateKeyOk(blindKeyEnc) THEN [err |-> "InvalidKey"]
        ELSE IF sealed.panic THEN [err |-> "panic"]
        ELSE [err |-> "ok",
              request |-> request,
              state |-> [tokenInput |-> tokenInput,
                         blindedRequestKey |-> blindedPublicKeyEnc,
                         encapSecret |-> sealed.secret,
                         nameKey |-> nameKey,
                         verificationKey |-> tokenKey,
                         verifier |-> <<tokenKey, fresh, tokenInput>>]]

\* FinalizeToken(encryptedtokenResponse), with encapEnc the bytes the state's
\* encapEnc slice holds now: [err, token, wrote].  wrote: the bytes that
\* append(s.encapEnc, ...) stores behind encapEnc, in the array it aliases
FinalizeToken(state, encapEnc, encryptedtokenResponse) ==
    LET responseNonce == Slice(encryptedtokenResponse, 0, ResponseNonceLen)
        ct == Slice(encryptedtokenResponse, ResponseNonceLen, BLen(encryptedtokenResponse))
        key == ResponseKey(encapEnc, responseNonce, state.encapSecret)
        nonce == ResponseAeadNonce(encapEnc, responseNonce, state.encapSecret)
        blindSignature == AeadPlaintext(ct)
        signature == RsaFinalize(state.verifier, blindSignature)
        token == UnmarshalToken(Cat(state.tokenInput, signature))
        failed(e, w) == [err |-> e, token |-> NoToken, wrote |-> w]
    IN  IF BLen(encryptedtokenResponse) < ResponseNonceLen THEN failed("panic", <<>>)
        ELSE IF ~AeadOpens(key, nonce, ct) THEN failed("AeadOpen", responseNonce)
        ELSE IF ~RsaFinalizeOk(state.verifier, blindSignature)
             THEN failed("BlindRsa", responseNonce)
        ELSE IF ~RsaVerifyPSS(state.verificationKey, AuthenticatorInput(token),
                              token.Authenticator)
             THEN failed("TokenVerify", responseNonce)
        ELSE [err |-> "ok", token |-> token, wrote |-> responseNonce]

----------------------------------------------------------------------------
(* The protocol: one issuer, clients, the network between them *)

MaxAdds == 2        \* calls of AddOrigin
MaxRequests == 1    \* calls of CreateTokenRequest
MaxResponses == 2   \* calls of Evaluate and EvaluateWithoutCheck together
MaxFinals == 1      \* calls of FinalizeToken
MaxTampers == 1     \* bytes changed in flight
MaxExchanges == 2   \* exchanges between the same parties, one after the other
LongNameLen == 65505

\* origin names: empty, short, ending in 0x00, and one whose padding no longer
\* fits a 16-bit length
OriginNames ==
    {<<>>, Bytes(97, 3), Cat(Bytes(97, 3), Bytes(0, 1)), Bytes(97, LongNameLen)}
ClientSecrets == {1}
BlindKeyEncs == {2, 3}
\* GenerateKey draws a key it has not drawn before
GenerateKey(n) == n + 2
Challenges == {Bytes(0, 32)}
Nonces == {Bytes(0, 32)}

\* s with s[off:off+len(data)] overwritten by data, as far as s reaches
Overwrite(s, off, data) ==
    IF data = <<>> \/ off >= BLen(s) THEN s
    ELSE CatAll(<<Slice(s, 0, off),
                  Slice(data, 0, Min(BLen(data), BLen(s) - off)),
                  Slice(s, Min(BLen(s), off + BLen(data)), BLen(s))>>)

\* one byte of s changed to another value
Flip(s, pos) == Overwrite(s, pos, Opaque("flip", ByteAt(s, pos), 1))

\* the bytes a slice [base, lo, hi] of a request's encryptedTokenRequest holds
SliceBytes(sl) == Slice(requests[sl.base].encryptedTokenRequest, sl.lo, sl.hi)

\* append(enc, data...) where enc is encryptedTokenRequest[0:KemPublicKeySize]
\* of request i and the array has room: data lands behind enc, in place
WriteBehindEnc(i, data) ==
    [requests EXCEPT ![i].encryptedTokenRequest =
        Overwrite(@, KemPublicKeySize, data)]

ProtoInit ==
    /\ originIndexKeys = <<>>
    /\ adds = 0
    /\ requests = <<>>
    /\ sent = <<>>
    /\ states = <<>>
    /\ responses = <<>>
    /\ finals = <<>>
    /\ tampers = 0

PadIdle ==
    /\ padIn = <<>>
    /\ padOut = <<>>
    /\ unpadOut = <<>>
    /\ padPc = "idle"

CodecIdle ==
    /\ codecIn = <<>>
    /\ codecOut = <<>>
    /\ codecPc = "idle"

\* no worker thread is in a call
WorkersIdle == workers = <<>>

\* i.originIndexKeys[origin] = privateKey
MapStore(m, origin, privateKey) ==
    [o \in DOMAIN m \cup {origin} |-> IF o = origin THEN privateKey ELSE m[o]]

\* OriginIndexKey(origin) on the map m; NoKey is nil
NoKey == 0
OriginIndexKey(m, origin) == IF origin \in DOMAIN m THEN m[origin] ELSE NoKey

\* AddOrigin(origin)
AddOrigin(origin) ==
    /\ adds < limits.adds
    /\ originIndexKeys' = MapStore(originIndexKeys, origin, GenerateKey(adds))
    /\ adds' = adds + 1
    /\ UNCHANGED <<requests, sent, states, responses, finals, tampers, limits, padVars, auxVars>>

\* a client calls CreateTokenRequest with the issuer's keys
ClientCreateTokenRequest(secretKey, challenge, nonce, blindKeyEnc, originName) ==
    /\ Len(states) < limits.requests
    /\ LET c == CreateTokenRequest(secretKey, challenge, nonce, blindKeyEnc, TokenKeyID,
                    IssuerTokenKey, originName, IssuerNameKey, Len(states) + 1)
           call == [secretKey |-> secretKey, blindKeyEnc |-> blindKeyEnc,
                    originName |-> originName,
                    known |-> originName \in DOMAIN originIndexKeys]
       IN  IF c.err = "ok"
           THEN /\ requests' = Append(requests, c.request)
                /\ sent' = Append(sent, c.request)
                /\ states' = Append(states,
                      [err |-> "ok", call |-> call, state |-> c.state,
                       request |-> Len(requests) + 1,
                       encapEnc |-> [base |-> Len(requests) + 1, lo |-> 0,
                                     hi |-> KemPublicKeySize]])
           ELSE /\ states' = Append(states, [err |-> c.err, call |-> call])
                /\ UNCHANGED <<requests, sent>>
    /\ UNCHANGED <<originIndexKeys, adds, responses, finals, tampers, limits, padVars, auxVars>>

NoIndex == [err |-> "none", index |-> <<>>]

\* the call of CreateTokenRequest that returned request i
StateOf(i) == CHOOSE k \in DOMAIN states : states[k].err = "ok" /\ states[k].request = i

\* the result of an evaluation of request i, logged
Logged(i, variant, res) ==
    [req |-> i, variant |-> variant, given |-> requests[i],
     keys |-> originIndexKeys,
     err |-> res.err, issued |-> res.resp, resp |-> res.resp,
     blindedRequestKeyEnc |-> res.blindedRequestKeyEnc,
     index |-> NoIndex]

\* what a call does once a key without coordinates has reached ecdsa.Verify
\* (Evaluate) or ecdsa.BlindPublicKey (EvaluateWithoutCheck): the operation
\* on a nil coordinate aborts, or the package refuses the key
NilKeyOutcomes(variant) ==
    IF variant = "Evaluate" THEN {"panic", "InvalidSignature"} ELSE {"panic", "InvalidKey"}
Outcomes(variant, res) ==
    IF res.err = "NilKey" THEN {[res EXCEPT !.err = e] : e \in NilKeyOutcomes(variant)}
    ELSE {res}

\* the issuer is handed request i and calls Evaluate
IssuerEvaluate(i) ==
    /\ Len(responses) < limits.responses
    /\ \E res \in Outcomes("Evaluate",
                    Evaluate(originIndexKeys, requests[i], Len(responses) + 1)) :
           /\ responses' = Append(responses, Logged(i, "Evaluate", res))
           /\ requests' = WriteBehindEnc(i, res.wrote)
    /\ UNCHANGED <<originIndexKeys, adds, sent, states, finals, tampers, limits, padVars, auxVars>>

\* the issuer is handed request i and calls EvaluateWithoutCheck
IssuerEvaluateWithoutCheck(i) ==
    /\ Len(responses) < limits.responses
    /\ \E res \in Outcomes("EvaluateWithoutCheck",
                    EvaluateWithoutCheck(originIndexKeys, requests[i], Len(responses) + 1)) :
           /\ responses' = Append(responses, Logged(i, "EvaluateWithoutCheck", res))
           /\ requests' = WriteBehindEnc(i, res.wrote)
    /\ UNCHANGED <<originIndexKeys, adds, sent, states, finals, tampers, limits, padVars, auxVars>>

\* the network changes one byte of a field of request i
TamperRequest(i, field, pos) ==
    /\ tampers < limits.tampers
    /\ pos < BLen(requests[i][field])
    /\ requests' = [requests EXCEPT ![i][field] = Flip(@, pos)]
    /\ tampers' = tampers + 1
    /\ UNCHANGED <<originIndexKeys, adds, sent, states, responses, finals, limits, padVars, auxVars>>

\* the network changes one byte of response j
TamperResponse(j, pos) ==
    /\ tampers < limits.tampers
    /\ pos < BLen(responses[j].resp)
    /\ responses' = [responses EXCEPT ![j].resp = Flip(@, pos)]
    /\ tampers' = tampers + 1
    /\ UNCHANGED <<originIndexKeys, adds, requests, sent, states, finals, limits, padVars, auxVars>>

\* the client holding state k is handed response j and calls FinalizeToken
ClientFinalizeToken(k, j) ==
    /\ Len(finals) < limits.finals
    /\ states[k].err = "ok"
    /\ responses[j].err = "ok"
    /\ LET res == FinalizeToken(states[k].state, SliceBytes(states[k].encapEnc),
                                responses[j].resp)
       IN  /\ finals' = Append(finals,
                  [state |-> k, response |-> j, given |-> responses[j].resp,
                   encapEnc |-> SliceBytes(states[k].encapEnc),
                   err |-> res.err, token |-> res.token])
           /\ requests' = WriteBehindEnc(states[k].encapEnc.base, res.wrote)
    /\ UNCHANGED <<originIndexKeys, adds, sent, states, responses, tampers, limits, padVars, auxVars>>

\* the attester, which knows the client's key and the blind of the request
\* that response j answers, calls FinalizeIndex on the issuer's blinded key
AttesterFinalizeIndex(j) ==
    /\ responses[j].err = "ok"
    /\ responses[j].index = NoIndex
    /\ LET call == states[StateOf(responses[j].req)].call
       IN  responses' = [responses EXCEPT ![j].index =
               FinalizeIndex(MarshalCompressed(PublicOf(call.secretKey)),
                             call.blindKeyEnc, responses[j].blindedRequestKeyEnc)]
    /\ UNCHANGED <<originIndexKeys, adds, requests, sent, states, finals, tampers,
                   limits, padVars, auxVars>>

RequestTamperPoints ==
    {<<"encryptedTokenRequest", 0>>, <<"encryptedTokenRequest", KemPublicKeySize>>,
     <<"nameKeyID", 0>>, <<"tokenKeyID", 0>>}
ResponseTamperPoints == {0, ResponseNonceLen}

Next ==
    \/ \E origin \in OriginNames : AddOrigin(origin)
    \/ \E secretKey \in ClientSecrets, challenge \in Challenges, nonce \in Nonces,
          blindKeyEnc \in BlindKeyEncs, originName \in OriginNames :
          ClientCreateTokenRequest(secretKey, challenge, nonce, blindKeyEnc, originName)
    \/ \E i \in 1..Len(requests) : IssuerEvaluate(i)
    \/ \E i \in 1..Len(requests) : IssuerEvaluateWithoutCheck(i)
    \/ \E i \in 1..Len(requests), p \in RequestTamperPoints : TamperRequest(i, p[1], p[2])
    \/ \E j \in 1..Len(responses), pos \in ResponseTamperPoints : TamperResponse(j, pos)
    \/ \E k \in 1..Len(states), j \in 1..Len(responses) : ClientFinalizeToken(k, j)

\* one exchange, followed from the request to the token over a network that
\* may change a byte
WireLimits ==
    [adds |-> MaxAdds, requests |-> MaxRequests, responses |-> MaxResponses,
     finals |-> MaxFinals, tampers |-> MaxTampers]

Init == ProtoInit /\ PadIdle /\ CodecIdle /\ WorkersIdle /\ limits = WireLimits

Spec == Init /\ [][Next]_vars

\* repeated exchanges over a network that delivers what it is given, with the
\* attester computing the index of each
RepeatLimits ==
    [adds |-> MaxAdds, requests |-> MaxExchanges, responses |-> MaxExchanges,
     finals |-> 0, tampers |-> 0]

RepeatInit == ProtoInit /\ PadIdle /\ CodecIdle /\ WorkersIdle /\ limits = RepeatLimits

RepeatNext ==
    \/ \E origin \in OriginNames : AddOrigin(origin)
    \/ \E secretKey \in ClientSecrets, challenge \in Challenges, nonce \in Nonces,
          blindKeyEnc \in BlindKeyEncs, originName \in OriginNames :
          ClientCreateTokenRequest(secretKey, challenge, nonce, blindKeyEnc, originName)
    \/ \E i \in 1..Len(requests) : IssuerEvaluate(i)
    \/ \E j \in 1..Len(responses) : AttesterFinalizeIndex(j)

SpecRepeat == RepeatInit /\ [][RepeatNext]_vars

----------------------------------------------------------------------------
(* Padding harness: an origin name is drawn, padded, then unpadded *)

MaxNameLen == 66

\* names of every length up to MaxNameLen: a run of one byte value followed
\* by a last byte, each zero or not
PadNames ==
    {<<>>} \cup
    {Cat(Bytes(f, n - 1), Bytes(l, 1)) :
        n \in 1..MaxNameLen, f \in {0, 65}, l \in {0, 66}}

NoBytes == << <<"none", 0, 1, 1>> >>

PadInit ==
    /\ ProtoInit
    /\ CodecIdle
    /\ WorkersIdle
    /\ limits = WireLimits
    /\ padIn \in PadNames
    /\ padOut = NoBytes
    /\ unpadOut = NoBytes
    /\ padPc = "start"

PadStep ==
    /\ padPc = "start"
    /\ padOut' = padOriginName(padIn)
    /\ padPc' = "padded"
    /\ UNCHANGED <<padIn, unpadOut, protoVars, auxVars>>

UnpadStep ==
    /\ padPc = "padded"
    /\ unpadOut' = unpadOriginName(padOut)
    /\ padPc' = "unpadded"
    /\ UNCHANGED <<padIn, padOut, protoVars, auxVars>>

\* unpadOriginName on the drawn bytes themselves
UnpadRawStep ==
    /\ padPc = "start"
    /\ unpadOut' = unpadOriginName(padIn)
    /\ padPc' = "unpaddedRaw"
    /\ UNCHANGED <<padIn, padOut, protoVars, auxVars>>

PadNext == PadStep \/ UnpadStep \/ UnpadRawStep

SpecPad == PadInit /\ [][PadNext]_vars

EndsInZero(s) == s # <<>> /\ ByteAt(s, BLen(s) - 1) = ZeroByte
AllZero(s) == \A k \in 1..Len(s) : s[k][1] = "b" /\ s[k][2] = 0

\* C7: for every origin name, padOriginName returns a length that is a
\* multiple of 32 and at least 32; the empty name pads to exactly 32 zero bytes.
C7_PadLength ==
    padPc \in {"padded", "unpadded"} =>
        /\ BLen(padOut) % PadBlock = 0
        /\ BLen(padOut) >= PadBlock
        /\ (padIn = <<>> => padOut = Bytes(0, PadBlock))

C7_Witness == padPc = "padded" /\ padIn = <<>> /\ BLen(padOut) = 32

\* C8 as stated: a name whose length is a multiple of 32 gets strictly longer.
C8_Original ==
    (padPc \in {"padded", "unpadded"} /\ BLen(padIn) % PadBlock = 0)
        => BLen(padOut) > BLen(padIn)

\* C8 amended: only the empty name gets a full block of 32 zero bytes; a
\* non-empty name whose length is a multiple of 32 is returned unchanged.
C8_Amended ==
    (padPc \in {"padded", "unpadded"} /\ BLen(padIn) % PadBlock = 0) =>
        IF padIn = <<>> THEN padOut = Bytes(0, PadBlock) ELSE padOut = padIn

C8_Witness == padPc = "padded" /\ BLen(padIn) = 64 /\ padOut = padIn

\* C9: unpad(pad(s)) = s for every s that is empty or does not end in 0x00,
\* multiples of 32 included; unpad of an all-zero or empty input is empty.
C9_RoundTrip ==
    /\ (padPc = "unpadded" /\ ~EndsInZero(padIn)) => unpadOut = padIn
    /\ (padPc = "unpadded" /\ AllZero(padOut)) => unpadOut = <<>>
    /\ (padPc = "unpaddedRaw" /\ AllZero(padIn)) => unpadOut = <<>>

C9_Witness ==
    /\ padPc = "unpadded"
    /\ BLen(padIn) = 32
    /\ ~EndsInZero(padIn)
    /\ unpadOut = padIn

----------------------------------------------------------------------------
(* Properties of the exchange *)

\* the name the issuer looks up for a request made for originName
Resolved(originName) == unpadOriginName(padOriginName(originName))

\* the padded name fits the 16-bit length prefix of OriginTokenRequest
FitsPrefix(originName) == BLen(padOriginName(originName)) <= MaxUint16

TokenVerifies(token) ==
    RsaVerifyPSS(IssuerTokenKey, AuthenticatorInput(token), token.Authenticator)

\* response j answers Evaluate on request i exactly as CreateTokenRequest emitted it
EvaluatedAsSent(j, i) ==
    /\ responses[j].req = i
    /\ responses[j].variant = "Evaluate"
    /\ responses[j].given = sent[i]

\* finals[f] is FinalizeToken of state k on response j as the issuer returned
\* it, with the request's encapsulated key untouched
FinalizedAsIssued(f, k, j) ==
    /\ finals[f].state = k
    /\ finals[f].response = j
    /\ finals[f].given = responses[j].issued
    /\ finals[f].encapEnc = Slice(sent[states[k].request].encryptedTokenRequest,
                                  0, KemPublicKeySize)

\* every call of the sequence, made for an origin registered before it and
\* satisfying Pre, succeeds and the token verifies
RoundTrip(Pre(_)) ==
    \A k \in DOMAIN states :
        (states[k].call.known /\ Pre(states[k].call.originName)) =>
            /\ states[k].err = "ok"
            /\ \A j \in DOMAIN responses :
                 EvaluatedAsSent(j, states[k].request) =>
                    /\ responses[j].err = "ok"
                    /\ \A f \in DOMAIN finals :
                         FinalizedAsIssued(f, k, j) =>
                            /\ finals[f].err = "ok"
                            /\ TokenVerifies(finals[f].token)

AnyName(originName) == TRUE
PlainName(originName) == ~EndsInZero(originName) /\ FitsPrefix(originName)

\* C1 as stated: for every origin registered with AddOrigin, CreateTokenRequest
\* -> Evaluate -> FinalizeToken on the unmodified request and response ends
\* with a Token, without error, that verifies under the issuer's RSA key.
C1_Original == RoundTrip(AnyName)

\* C1 amended: the same, for registered origin names that do not end in 0x00
\* and whose padding fits the 16-bit length prefix.
C1_RoundTrip == RoundTrip(PlainName)

C1_Witness ==
    \E f \in DOMAIN finals :
        /\ states[finals[f].state].call.known
        /\ states[finals[f].state].call.originName = Bytes(97, 3)
        /\ EvaluatedAsSent(finals[f].response, states[finals[f].state].request)
        /\ FinalizedAsIssued(f, finals[f].state, finals[f].response)
        /\ finals[f].err = "ok"
        /\ TokenVerifies(finals[f].token)

\* C2: on every request that Evaluate accepts, EvaluateWithoutCheck returns
\* the same blindedRequestKeyEnc and a response that FinalizeToken turns into
\* a valid Token.
C2_Equivalence ==
    \A j \in DOMAIN responses :
        responses[j].variant = "EvaluateWithoutCheck" =>
            LET checked == Evaluate(responses[j].keys, responses[j].given, j)
                k == StateOf(responses[j].req)
                final == FinalizeToken(states[k].state,
                             Slice(responses[j].given.encryptedTokenRequest,
                                   0, KemPublicKeySize),
                             responses[j].issued)
            IN  checked.err = "ok" =>
                    /\ responses[j].err = "ok"
                    /\ responses[j].blindedRequestKeyEnc = checked.blindedRequestKeyEnc
                    /\ final.err = "ok"
                    /\ TokenVerifies(final.token)

\* response j answers Evaluate on request i with one byte changed at point p,
\* for a registered origin whose unchanged request Evaluate accepts
EvaluatedTampered(j, p) ==
    LET i == responses[j].req
    IN  /\ responses[j].variant = "Evaluate"
        /\ responses[j].given = [sent[i] EXCEPT ![p[1]] = Flip(@, p[2])]
        /\ states[StateOf(i)].call.originName \in DOMAIN responses[j].keys
        /\ Evaluate(responses[j].keys, sent[i], j).err = "ok"

\* C3 as stated: a changed byte of encryptedTokenRequest, of nameKeyID or of
\* tokenKeyID makes Evaluate fail with InvalidSignature, for each of the three.
C3_Original ==
    \A j \in DOMAIN responses, p \in RequestTamperPoints :
        EvaluatedTampered(j, p) => responses[j].err = "InvalidSignature"

\* C3 amended: a changed byte of nameKeyID makes Evaluate fail with
\* InvalidSignature; a changed byte of encryptedTokenRequest or of tokenKeyID
\* makes it fail with the error of the HPKE open, before the signature check.
C3_Binding ==
    \A j \in DOMAIN responses, p \in RequestTamperPoints :
        EvaluatedTampered(j, p) =>
            /\ responses[j].err =
                 IF p[1] = "nameKeyID" THEN "InvalidSignature" ELSE "HpkeOpen"
            /\ responses[j].issued = <<>>

C3_Witness ==
    \E j \in DOMAIN responses :
        /\ EvaluatedTampered(j, <<"nameKeyID", 0>>)
        /\ responses[j].err = "InvalidSignature"

\* C4: two exchanges by the same client key for the same registered origin,
\* with different blinds and AddOrigin calls for other origins in between,
\* give equal FinalizeIndex outputs.  The origin of an exchange is the name
\* the issuer resolves; its key is the same at both evaluations exactly when
\* it was not added again in between.
C4_IndexStable ==
    \A j1 \in DOMAIN responses, j2 \in DOMAIN responses :
        LET c1 == states[StateOf(responses[j1].req)].call
            c2 == states[StateOf(responses[j2].req)].call
            o == Resolved(c1.originName)
        IN  (/\ responses[j1].index.err = "ok"
             /\ responses[j2].index.err = "ok"
             /\ c1.secretKey = c2.secretKey
             /\ c1.originName = c2.originName
             /\ o \in DOMAIN responses[j1].keys
             /\ o \in DOMAIN responses[j2].keys
             /\ responses[j1].keys[o] = responses[j2].keys[o])
            => responses[j1].index.index = responses[j2].index.index

C4_Witness ==
    \E j1 \in DOMAIN responses, j2 \in DOMAIN responses :
        LET c1 == states[StateOf(responses[j1].req)].call
            c2 == states[StateOf(responses[j2].req)].call
        IN  /\ responses[j1].index.err = "ok"
            /\ responses[j2].index.err = "ok"
            /\ c1.originName = Bytes(97, 3)
            /\ c2.originName = Bytes(97, 3)
            /\ c1.blindKeyEnc # c2.blindKeyEnc
            /\ responses[j1].keys # responses[j2].keys
            /\ responses[j1].keys[c1.originName] = responses[j2].keys[c1.originName]
            /\ responses[j1].index.index = responses[j2].index.index

\* C5: once an origin is registered, no later AddOrigin (for any name, the
\* same one included), Evaluate or EvaluateWithoutCheck changes its key.
C5_KeyConstant ==
    [][\A o \in DOMAIN originIndexKeys :
          OriginIndexKey(originIndexKeys', o) = OriginIndexKey(originIndexKeys, o)]_vars

\* C6: on a request as CreateTokenRequest emitted it, whose unpadded origin
\* name was never added, both variants return the unknown-origin error, no
\* response and no blinded request key, whatever else is registered.
C6_UnknownOrigin ==
    \A j \in DOMAIN responses :
        LET i == responses[j].req
        IN  (/\ responses[j].given = sent[i]
             /\ Resolved(states[StateOf(i)].call.originName)
                    \notin DOMAIN responses[j].keys)
            => /\ responses[j].err = "UnknownOrigin"
               /\ responses[j].issued = <<>>
               /\ responses[j].blindedRequestKeyEnc = <<>>

C6_Witness ==
    \E j1 \in DOMAIN responses, j2 \in DOMAIN responses :
        /\ responses[j1].variant = "Evaluate"
        /\ responses[j2].variant = "EvaluateWithoutCheck"
        /\ responses[j1].err = "UnknownOrigin"
        /\ responses[j2].err = "UnknownOrigin"
        /\ responses[j1].keys # <<>>
        /\ responses[j2].given = sent[responses[j2].req]

----------------------------------------------------------------------------
(* Frame conditions of the issuer's and the client's calls *)

\* C13: Evaluate and EvaluateWithoutCheck leave the request they are given
\* unchanged: a step that logs an evaluation changes no field of any request.
C13_RequestUnchanged ==
    [][Len(responses') > Len(responses) => requests' = requests]_vars

\* C14: FinalizeToken changes no byte of the retained client state: a step
\* that logs a call of FinalizeToken leaves the request that state.Request()
\* returns, and the bytes encapEnc holds, as they were.
C14_StateUnchanged ==
    [][Len(finals') > Len(finals) =>
        \A k \in DOMAIN states :
            states[k].err = "ok" =>
                /\ requests'[states[k].request] = requests[states[k].request]
                /\ Slice(requests'[states[k].encapEnc.base].encryptedTokenRequest,
                         states[k].encapEnc.lo, states[k].encapEnc.hi)
                       = SliceBytes(states[k].encapEnc)]_vars

----------------------------------------------------------------------------
(* Decoding harness: bytes are drawn and handed to OriginTokenRequest.Unmarshal *)

MaxTrailing == 3

\* lengths of the paddedOrigin field of the encodings the inputs are cut from
CodecOriginLens == {0, 1, 31, 32, 33, 64}

\* the encoding of a request with a paddedOrigin of n bytes
EncodingOf(n) ==
    Marshal([blindedMsg |-> Opaque("blindedMsg", n, BlindedMsgLen),
             requestKey |-> Opaque("requestKey", n, RequestKeyLen),
             paddedOrigin |-> Bytes(97, n)])

\* where the inputs end: inside each fixed field, and every position from
\* the end of the length prefix to MaxTrailing bytes past the encoding
CodecCuts(n) ==
    {0, BlindedMsgLen - 1, BlindedMsgLen, BlindedMsgLen + RequestKeyLen - 1,
     BlindedMsgLen + RequestKeyLen, BlindedMsgLen + RequestKeyLen + 1}
    \cup (BLen(EncodingOf(n)) - n) .. (BLen(EncodingOf(n)) + MaxTrailing)

\* short inputs, whole encodings, and encodings with bytes left over
CodecInputs ==
    {Slice(Cat(EncodingOf(n), Bytes(7, MaxTrailing)), 0, cut) :
        n \in CodecOriginLens, cut \in UNION {CodecCuts(k) : k \in CodecOriginLens}}

CodecInit ==
    /\ ProtoInit
    /\ PadIdle
    /\ WorkersIdle
    /\ limits = WireLimits
    /\ codecIn \in CodecInputs
    /\ codecOut = <<>>
    /\ codecPc = "start"

\* ok := r.Unmarshal(data)
UnmarshalStep ==
    /\ codecPc = "start"
    /\ codecOut' = [ok |-> UnmarshalOk(codecIn),
                    req |-> IF UnmarshalOk(codecIn) THEN Unmarshal(codecIn)
                            ELSE EmptyOriginTokenRequest]
    /\ codecPc' = "done"
    /\ UNCHANGED <<codecIn, workers, protoVars, padVars>>

CodecNext == UnmarshalStep

SpecCodec == CodecInit /\ [][CodecNext]_vars

\* the length of an input that is exactly 256 bytes, 49 bytes, a 16-bit
\* length L and L bytes, for the L the input itself declares
ExactLen(data) ==
    BlindedMsgLen + RequestKeyLen + 2 + ReadU16(data, BlindedMsgLen + RequestKeyLen)

\* C11: Unmarshal fails on every input that is not exactly 256 bytes, 49
\* bytes, a 16-bit length L and L bytes: whenever it succeeds, the input has
\* exactly that length, with nothing left over.
C11_ExactInput ==
    (codecPc = "done" /\ codecOut.ok) => BLen(codecIn) = ExactLen(codecIn)

----------------------------------------------------------------------------
(* Worker threads: calls of AddOrigin, Evaluate and EvaluateWithoutCheck on
   one issuer, interleaved.  Only the steps that touch originIndexKeys are
   followed here; an access of the map takes time, so it has a begin and an
   end, and the code takes no lock around it. *)

MaxWorkers == 2

Workers == 1..MaxWorkers
RaceOrigins == {<<>>, Bytes(97, 3)}
WorkerOps == {"AddOrigin", "Evaluate", "EvaluateWithoutCheck"}
IdleWorker == [op |-> "idle", pc |-> "idle", origin |-> <<>>, key |-> NoKey, raced |-> FALSE]

\* the runtime has stopped the process: concurrent map read and map write
Fatal == \E w \in DOMAIN workers : workers[w].pc = "fatal"

\* worker w is inside a store to / a lookup in the map
Storing(w) == workers[w].pc = "storing"
Reading(w) == workers[w].pc = "reading"

\* the accesses of other workers that w's access (a store if write, else a
\* lookup) overlaps in a way the language leaves undefined
Overlapped(w, write) ==
    {v \in DOMAIN workers \ {w} : Storing(v) \/ (write /\ Reading(v))}

raceFrame == <<requests, sent, states, responses, finals, tampers, limits, padVars, codecVars>>

RaceLimits ==
    [adds |-> MaxAdds, requests |-> 0, responses |-> 0, finals |-> 0, tampers |-> 0]

RaceInit ==
    /\ ProtoInit
    /\ PadIdle
    /\ CodecIdle
    /\ limits = RaceLimits
    /\ workers = [w \in Workers |-> IdleWorker]

\* a caller starts op on worker w; origin is AddOrigin's argument, or the
\* name the request of an evaluation decrypts to
WorkerCall(w, op, origin) ==
    /\ ~Fatal
    /\ workers[w].pc = "idle"
    /\ op = "AddOrigin" => adds < limits.adds
    /\ workers' = [workers EXCEPT ![w] =
           [op |-> op, pc |-> "entered", origin |-> origin, key |-> NoKey, raced |-> FALSE]]
    /\ UNCHANGED <<originIndexKeys, adds, raceFrame>>

\* AddOrigin: privateKey, err := ecdsa.GenerateKey(...)
WorkerGenerateKey(w) ==
    /\ ~Fatal
    /\ workers[w].op = "AddOrigin" /\ workers[w].pc = "entered"
    /\ workers' = [workers EXCEPT ![w].key = GenerateKey(adds), ![w].pc = "store"]
    /\ adds' = adds + 1
    /\ UNCHANGED <<originIndexKeys, raceFrame>>

\* Evaluate, EvaluateWithoutCheck: decryptOriginTokenRequest, unpadOriginName
WorkerDecrypt(w) ==
    /\ ~Fatal
    /\ workers[w].op \in {"Evaluate", "EvaluateWithoutCheck"} /\ workers[w].pc = "entered"
    /\ workers' = [workers EXCEPT ![w].pc = "lookup"]
    /\ UNCHANGED <<originIndexKeys, adds, raceFrame>>

\* w starts its access of the map; every access it overlaps with, and its
\* own, is marked when the overlap is a race
WorkerBeginAccess(w) ==
    /\ ~Fatal
    /\ workers[w].pc \in {"store", "lookup"}
    /\ LET write == workers[w].pc = "store"
           others == Overlapped(w, write)
       IN  workers' = [v \in DOMAIN workers |->
               IF v = w THEN [workers[v] EXCEPT !.pc = IF write THEN "storing" ELSE "reading",
                                                !.raced = others # {}]
               ELSE IF v \in others THEN [workers[v] EXCEPT !.raced = TRUE]
               ELSE workers[v]]
    /\ UNCHANGED <<originIndexKeys, adds, raceFrame>>

\* AddOrigin: i.originIndexKeys[origin] = privateKey is done; return nil.
\* After a race the runtime may have stopped the process instead.
WorkerEndStore(w, fatal) ==
    /\ ~Fatal
    /\ Storing(w)
    /\ fatal => workers[w].raced
    /\ IF fatal
       THEN /\ workers' = [workers EXCEPT ![w].pc = "fatal"]
            /\ UNCHANGED originIndexKeys
       ELSE /\ originIndexKeys' = MapStore(originIndexKeys, workers[w].origin, workers[w].key)
            /\ workers' = [workers EXCEPT ![w] = IdleWorker]
    /\ UNCHANGED <<adds, raceFrame>>

\* Evaluate, EvaluateWithoutCheck: originIndexKey, ok := i.originIndexKeys[originName]
\* is done, and the call goes on without the map.  After a race the runtime
\* may have stopped the process instead.
WorkerEndLookup(w, fatal) ==
    /\ ~Fatal
    /\ Reading(w)
    /\ fatal => workers[w].raced
    /\ workers' = [workers EXCEPT ![w] =
           IF fatal THEN [@ EXCEPT !.pc = "fatal"] ELSE IdleWorker]
    /\ UNCHANGED <<originIndexKeys, adds, raceFrame>>

RaceNext ==
    \/ \E w \in Workers, op \in WorkerOps, origin \in RaceOrigins : WorkerCall(w, op, origin)
    \/ \E w \in Workers : WorkerGenerateKey(w)
    \/ \E w \in Workers : WorkerDecrypt(w)
    \/ \E w \in Workers : WorkerBeginAccess(w)
    \/ \E w \in Workers, fatal \in BOOLEAN : WorkerEndStore(w, fatal)
    \/ \E w \in Workers, fatal \in BOOLEAN : WorkerEndLookup(w, fatal)

SpecRace == RaceInit /\ [][RaceNext]_vars

\* C12: no execution has an AddOrigin write to originIndexKeys overlapping an
\* Evaluate or EvaluateWithoutCheck read of it, or another AddOrigin write:
\* while a worker is storing, no other worker is storing or reading.
C12_MapSerialized ==
    \A w \in DOMAIN workers :
        Storing(w) => \A v \in DOMAIN workers \ {w} : ~Storing(v) /\ ~Reading(v)

----------------------------------------------------------------------------
(* Malformed inputs: a peer that does not follow CreateTokenRequest hands the
   issuer a request of its own making, and the network cuts a response short *)

\* what is wrong with a request made by hand
Shapes == {"undecodable", "offCurve", "shortCiphertext", "shortSignature"}
CraftNames == {<<>>, Bytes(97, 3)}

\* the HPKE plaintext of a request of the given shape: an OriginTokenRequest
\* that ends before its length prefix, or one whose requestKey is 49 bytes
\* that are no compressed point, or a well-formed one
CraftedPlaintext(secretKey, blindKeyEnc, originName, shape, fresh) ==
    LET tokenRequest ==
            [blindedMsg |-> RsaBlind(IssuerTokenKey, fresh, <<>>),
             requestKey |-> IF shape = "offCurve" THEN Bytes(0, RequestKeyLen)
                            ELSE MarshalCompressed(
                                     BlindPublicKey(PublicOf(secretKey), blindKeyEnc)),
             paddedOrigin |-> padOriginName(originName)]
    IN  IF shape = "undecodable"
        THEN Slice(Marshal(tokenRequest), 0, BlindedMsgLen + RequestKeyLen)
        ELSE Marshal(tokenRequest)

\* a RateLimitedTokenRequest of the given shape: sealed to the issuer's
\* public name key and signed as CreateTokenRequest does, with the
\* ciphertext or the signature cut short where the shape says so
CraftedRequest(secretKey, blindKeyEnc, originName, shape, fresh) ==
    LET nameKey == IssuerNameKey
        tokenKeyID == Slice(TokenKeyID, 0, 1)
        issuerKeyID == Sha256(NameKeyMarshal(nameKey))
        setup == SetupBaseS(nameKey.publicKey, "TokenRequest", fresh)
        ct == HpkeSeal(setup.context, HpkeAad(nameKey, tokenKeyID, issuerKeyID),
                       CraftedPlaintext(secretKey, blindKeyEnc, originName, shape, fresh))
        whole == Cat(setup.enc, ct)
        encryptedTokenRequest ==
            IF shape = "shortCiphertext" THEN Slice(whole, 0, KemPublicKeySize - 1)
            ELSE whole
        signature ==
            BlindKeySign(secretKey, blindKeyEnc,
                         SignedMessage(tokenKeyID, issuerKeyID, encryptedTokenRequest))
    IN  [tokenKeyID |-> tokenKeyID,
         nameKeyID |-> issuerKeyID,
         encryptedTokenRequest |-> encryptedTokenRequest,
         signature |-> IF shape = "shortSignature" THEN Slice(signature, 0, ScalarLen - 1)
                       ELSE signature]

\* a peer hands over a request of its own making
CraftRequest(secretKey, blindKeyEnc, originName, shape) ==
    /\ tampers < limits.tampers
    /\ LET request == CraftedRequest(secretKey, blindKeyEnc, originName, shape,
                                     0 - (Len(requests) + 1))
       IN  /\ requests' = Append(requests, request)
           /\ sent' = Append(sent, request)
    /\ tampers' = tampers + 1
    /\ UNCHANGED <<originIndexKeys, adds, states, responses, finals, limits, padVars, auxVars>>

\* the network delivers only the first bytes of response j, fewer than a
\* response nonce, in a slice of their own
TruncateResponse(j) ==
    /\ tampers < limits.tampers
    /\ BLen(responses[j].resp) >= ResponseNonceLen
    /\ responses' = [responses EXCEPT ![j].resp = Slice(@, 0, ResponseNonceLen - 1)]
    /\ tampers' = tampers + 1
    /\ UNCHANGED <<originIndexKeys, adds, requests, sent, states, finals, limits, padVars, auxVars>>

MalformedNext ==
    \/ \E origin \in OriginNames : AddOrigin(origin)
    \/ \E secretKey \in ClientSecrets, challenge \in Challenges, nonce \in Nonces,
          blindKeyEnc \in BlindKeyEncs, originName \in OriginNames :
          ClientCreateTokenRequest(secretKey, challenge, nonce, blindKeyEnc, originName)
    \/ \E secretKey \in ClientSecrets, blindKeyEnc \in BlindKeyEncs,
          originName \in CraftNames, shape \in Shapes :
          CraftRequest(secretKey, blindKeyEnc, originName, shape)
    \/ \E i \in 1..Len(requests) : IssuerEvaluate(i)
    \/ \E i \in 1..Len(requests) : IssuerEvaluateWithoutCheck(i)
    \/ \E j \in 1..Len(responses) : TruncateResponse(j)
    \/ \E k \in 1..Len(states), j \in 1..Len(responses) : ClientFinalizeToken(k, j)

\* one call of each kind, with one malformed input among them
MaxMalformed == 1
MalformedLimits ==
    [adds |-> MaxMalformed, requests |-> MaxMalformed, responses |-> MaxMalformed,
     finals |-> MaxMalformed, tampers |-> MaxMalformed]

MalformedInit == ProtoInit /\ PadIdle /\ CodecIdle /\ WorkersIdle /\ limits = MalformedLimits

SpecMalformed == MalformedInit /\ [][MalformedNext]_vars

\* the HPKE ciphertext of req opens under the issuer's name key
OpensAtIssuer(req) ==
    /\ BLen(req.encryptedTokenRequest) >= KemPublicKeySize
    /\ HpkeOpens(SetupBaseR(IssuerNameKey.privateKey,
                            Slice(req.encryptedTokenRequest, 0, KemPublicKeySize),
                            "TokenRequest"),
                 HpkeAad(IssuerNameKey, req.tokenKeyID, Sha256(NameKeyMarshal(IssuerNameKey))),
                 Slice(req.encryptedTokenRequest, KemPublicKeySize,
                       BLen(req.encryptedTokenRequest)))

\* the plaintext that the ciphertext of req opens to
PlaintextAtIssuer(req) ==
    HpkePlaintext(Slice(req.encryptedTokenRequest, KemPublicKeySize,
                        BLen(req.encryptedTokenRequest)))

\* C15: when the HPKE plaintext opens but does not decode as an
\* OriginTokenRequest, Evaluate and EvaluateWithoutCheck return the Decode
\* error of decryptOriginTokenRequest and go no further.
C15_DecodeError ==
    \A j \in DOMAIN responses :
        (/\ OpensAtIssuer(responses[j].given)
         /\ ~UnmarshalOk(PlaintextAtIssuer(responses[j].given)))
        => responses[j].err = "Decode"

\* C16: inputs shorter than the prefix an operation slices off come back as
\* an error, not as an abort: Evaluate given a ciphertext shorter than the
\* KEM public key or a signature shorter than 48 bytes, and FinalizeToken
\* given a response shorter than the response nonce, each return an error.
C16_ShortInputError ==
    /\ \A j \in DOMAIN responses :
           (/\ responses[j].variant = "Evaluate"
            /\ \/ BLen(responses[j].given.encryptedTokenRequest) < KemPublicKeySize
               \/ BLen(responses[j].given.signature) < ScalarLen)
           => responses[j].err \notin {"ok", "panic"}
    /\ \A f \in DOMAIN finals :
           BLen(finals[f].given) < ResponseNonceLen
           => finals[f].err \notin {"ok", "panic"}

\* C17: Evaluate rejects every request whose decrypted requestKey does not
\* decode to a point on the curve, with an error that is returned before the
\* key is used for the signature check or for blinding, and without a blind
\* signature or a blinded request key.
C17_KeyChecked ==
    \A j \in DOMAIN responses :
        (/\ responses[j].variant = "Evaluate"
         /\ OpensAtIssuer(responses[j].given)
         /\ UnmarshalOk(PlaintextAtIssuer(responses[j].given))
         /\ UnmarshalCompressed(Unmarshal(PlaintextAtIssuer(responses[j].given)).requestKey)
                = NilPoint)
        => /\ responses[j].err \notin {"ok", "panic", "InvalidSignature"}
           /\ responses[j].issued = <<>>
           /\ responses[j].blindedRequestKeyEnc = <<>>

====
